---- MODULE Spec2Model ----
(***************************************************************************)
(* Model of sloc.go: a line counter.  main walks every root path given on  *)
(* the command line (filepath.Walk), the walk callback scans each path     *)
(* ending in ".go" (getFileStats) and sends one fileLines record on the    *)
(* unbuffered channel `results`; the goroutine processResults receives the *)
(* records, sums them into `total`, formats a row per record, prints the   *)
(* table when the channel is closed and then sends on `done`.              *)
(*                                                                         *)
(* Strings are sequences of one-character strings, so that TrimSpace,      *)
(* HasPrefix, HasSuffix and Itoa are computed, not assumed.                *)
(* The file system, os.Open, bufio.Scanner and filepath.Walk are the       *)
(* environment: what they return is drawn from small sets.                 *)
(***************************************************************************)
EXTENDS Integers, Sequences, FiniteSets, TLC

VARIABLES
    files,      \* flag.Args(): the root paths, in order
    logLevelOk, \* whether -loglevel names a key of loggingLevels
    mainPc,     \* position of main (and of the walk callback it runs)
    i,          \* index into files of the root being walked (1-based)
    dirs,       \* filepath.Walk's recursion: the directories being listed
    cur,        \* arguments of the current callback call: path, info, err
    walkErr,    \* value returned by the callback to filepath.Walk (FALSE = nil)
    file,       \* getFileStats: the opened file (what the scanner will read)
    pos,        \* getFileStats: number of lines the scanner has returned
    res,        \* getFileStats: res
    inComment,  \* getFileStats: inComment
    scanErr,    \* getFileStats: scanner.Err() # nil
    closed,     \* results has been closed
    aggPc,      \* position of the goroutine processResults
    aggRes,     \* processResults: res, the record just received
    total,      \* processResults: total
    data,       \* processResults: data, the formatted rows
    table,      \* what has been written to stdout: the rendered tables
    sent,       \* history: the records sent on results, with the file scanned
    visited,    \* history: the callback calls made by filepath.Walk
    nClose,     \* history: number of close(results) executed
    nDone,      \* history: number of values passed on done
    logged,     \* history: the calls of log.Debug and log.Error in the callback
    lineLog,    \* history: for each line of the current scan, the counter
                \* it went to and inComment after it
    scans       \* history: the scans of one file that have returned

vars == <<files, logLevelOk, mainPc, i, dirs, cur, walkErr, file, pos, res,
          inComment, scanErr, closed, aggPc, aggRes, total, data, table,
          sent, visited, nClose, nDone, logged, lineLog, scans>>

mainVars == <<mainPc, i, dirs, cur, walkErr, file, pos, res, inComment, scanErr>>
aggVars  == <<aggPc, aggRes, total, data, table>>
histVars == <<sent, visited, nClose, nDone, logged>>
scanHist == <<lineLog, scans>>

----------------------------------------------------------------------------
(* Bounds *)

MaxRoots  == 2   \* number of root paths on the command line
MaxVisits == 3   \* callback calls made by filepath.Walk in one run
MaxDepth  == 1   \* depth of the directories whose entries are listed
MaxLines  == 2   \* lines of a scanned file
MaxLineLen   == 2   \* characters of a line made of marker characters
MaxScanLines == 3   \* lines of the file whose classification is followed

----------------------------------------------------------------------------
(* Strings *)

Space == {" ", "\t"}

HasPrefix(s, prefix) ==
    /\ Len(s) >= Len(prefix)
    /\ SubSeq(s, 1, Len(prefix)) = prefix

HasSuffix(s, suffix) ==
    /\ Len(s) >= Len(suffix)
    /\ SubSeq(s, Len(s) - Len(suffix) + 1, Len(s)) = suffix

RECURSIVE TrimLeft(_)
TrimLeft(s) ==
    IF s # <<>> /\ Head(s) \in Space THEN TrimLeft(Tail(s)) ELSE s

RECURSIVE TrimRight(_)
TrimRight(s) ==
    IF s # <<>> /\ s[Len(s)] \in Space
    THEN TrimRight(SubSeq(s, 1, Len(s) - 1))
    ELSE s

TrimSpace(s) == TrimRight(TrimLeft(s))

Digits == <<"0", "1", "2", "3", "4", "5", "6", "7", "8", "9">>

RECURSIVE ItoaNat(_)
ItoaNat(n) ==
    IF n < 10 THEN <<Digits[n + 1]>>
    ELSE ItoaNat(n \div 10) \o <<Digits[(n % 10) + 1]>>

Itoa(n) == IF n < 0 THEN <<"-">> \o ItoaNat(0 - n) ELSE ItoaNat(n)

Join(dir, name) == dir \o <<"/">> \o name

GoSuffix     == <<".", "g", "o">>
LineComment  == <<"/", "/">>
BlockOpen    == <<"/", "*">>
BlockClose   == <<"*", "/">>
TotalName    == <<"T", "O", "T", "A", "L">>

----------------------------------------------------------------------------
(* The environment's small sets *)

\* names of directory entries and of roots: one with the suffix, one without
EntryNames == { <<"a">> \o GoSuffix, <<"r">> }

\* lines a scanned file is made of: whitespace only, line comment, code,
\* and the opening of a block comment
FileLineSet == { <<" ">>, LineComment, <<"x">>, BlockOpen \o <<"c">> }

RECURSIVE SeqsUpTo(_, _)
SeqsUpTo(S, n) ==
    IF n = 0 THEN { <<>> }
    ELSE LET shorter == SeqsUpTo(S, n - 1)
         IN  shorter \cup { Append(s, x) : s \in { t \in shorter : Len(t) = n - 1 }, x \in S }

FileContents == SeqsUpTo(FileLineSet, MaxLines)

\* lines for the classifier: every string of marker characters up to
\* MaxLineLen, and a whitespace line, a padded line comment, a code line, a
\* line comment that ends with the close marker and a closed block comment
MarkerChars == {"/", "*"}
ExtraLines ==
    { <<" ">>, <<" ">> \o LineComment \o <<"\t">>, <<"x">>,
      LineComment \o BlockClose, BlockOpen \o BlockClose }
ScanLineSet == SeqsUpTo(MarkerChars, MaxLineLen) \cup ExtraLines
ScanContents == SeqsUpTo(ScanLineSet, MaxScanLines)
ScanPath == <<"a">> \o GoSuffix

NoCur  == [path |-> <<>>, isDir |-> FALSE, err |-> FALSE]
NoFile == [lines |-> <<>>, isDir |-> FALSE]
NoScans == [on |-> FALSE, of |-> <<>>, results |-> {}, dirty |-> FALSE, again |-> FALSE]

----------------------------------------------------------------------------
(* fileLines *)

NewFileLines(name) ==
    [filename |-> name, codeLines |-> 0, commentLines |-> 0, whitespaceLines |-> 0]

\* a slip in join: the code lines are added to the comment lines
joinSwapped(this, f) ==
    [this EXCEPT !.codeLines       = @ + f.commentLines,
                 !.commentLines    = @ + f.codeLines,
                 !.whitespaceLines = @ + f.whitespaceLines]

join(this, f) ==
    [this EXCEPT !.codeLines       = @ + f.codeLines,
                 !.commentLines    = @ + f.commentLines,
                 !.whitespaceLines = @ + f.whitespaceLines]

\* one row of data: filename, white space, comment, code
Row(r) ==
    << r.filename, Itoa(r.whitespaceLines), Itoa(r.commentLines), Itoa(r.codeLines) >>

----------------------------------------------------------------------------
(* getFileStats: the body of the scan loop for one line *)

\* the counter a line went to: the one that differs between r and after
Category(r, after) ==
    IF after.whitespaceLines # r.whitespaceLines THEN "Blank"
    ELSE IF after.commentLines # r.commentLines THEN "Comment"
    ELSE IF after.codeLines # r.codeLines THEN "Code"
    ELSE "None"

\* the classifier with its tests in the order: blank; block comment open;
\* line comment; opening of a block comment; code
RefStep(r, inC, rawLine) ==
    LET line == TrimSpace(rawLine) IN
    IF Len(line) = 0
    THEN << [r EXCEPT !.whitespaceLines = @ + 1], inC >>
    ELSE IF inC
    THEN << [r EXCEPT !.commentLines = @ + 1],
            IF HasSuffix(line, BlockClose) THEN FALSE ELSE inC >>
    ELSE IF HasPrefix(line, LineComment)
    THEN << [r EXCEPT !.commentLines = @ + 1], inC >>
    ELSE IF HasPrefix(line, BlockOpen)
    THEN << [r EXCEPT !.commentLines = @ + 1],
            IF ~HasSuffix(line, BlockClose) THEN TRUE ELSE inC >>
    ELSE << [r EXCEPT !.codeLines = @ + 1], inC >>

\* the classifier with the test for an empty line after the others
ScanStepBlankLate(r, inC, rawLine) ==
    LET line == TrimSpace(rawLine) IN
    IF HasPrefix(line, LineComment)
    THEN << [r EXCEPT !.commentLines = @ + 1], inC >>
    ELSE IF HasPrefix(line, BlockOpen)
    THEN << [r EXCEPT !.commentLines = @ + 1],
            IF ~HasSuffix(line, BlockClose) THEN TRUE ELSE inC >>
    ELSE IF inC
    THEN << [r EXCEPT !.commentLines = @ + 1],
            IF HasSuffix(line, BlockClose) THEN FALSE ELSE inC >>
    ELSE IF Len(line) = 0
    THEN << [r EXCEPT !.whitespaceLines = @ + 1], inC >>
    ELSE << [r EXCEPT !.codeLines = @ + 1], inC >>

\* the classifier with the test of the close marker inverted where a block
\* comment opens
ScanStepOpenInverted(r, inC, rawLine) ==
    LET line == TrimSpace(rawLine) IN
    IF Len(line) = 0
    THEN << [r EXCEPT !.whitespaceLines = @ + 1], inC >>
    ELSE IF HasPrefix(line, LineComment)
    THEN << [r EXCEPT !.commentLines = @ + 1], inC >>
    ELSE IF HasPrefix(line, BlockOpen)
    THEN << [r EXCEPT !.commentLines = @ + 1],
            IF HasSuffix(line, BlockClose) THEN TRUE ELSE inC >>
    ELSE IF inC
    THEN << [r EXCEPT !.commentLines = @ + 1],
            IF HasSuffix(line, BlockClose) THEN FALSE ELSE inC >>
    ELSE << [r EXCEPT !.codeLines = @ + 1], inC >>

\* the pair <<res, inComment>> after one line
ScanStep(r, inC, rawLine) ==
    LET line == TrimSpace(rawLine) IN
    IF Len(line) = 0
    THEN << [r EXCEPT !.whitespaceLines = @ + 1], inC >>
    ELSE IF HasPrefix(line, LineComment)
    THEN << [r EXCEPT !.commentLines = @ + 1], inC >>
    ELSE IF HasPrefix(line, BlockOpen)
    THEN << [r EXCEPT !.commentLines = @ + 1],
            IF ~HasSuffix(line, BlockClose) THEN TRUE ELSE inC >>
    ELSE IF inC
    THEN << [r EXCEPT !.commentLines = @ + 1],
            IF HasSuffix(line, BlockClose) THEN FALSE ELSE inC >>
    ELSE << [r EXCEPT !.codeLines = @ + 1], inC >>

----------------------------------------------------------------------------
Init ==
    /\ files \in { f \in SeqsUpTo(EntryNames, MaxRoots) : Len(f) <= MaxVisits }
    /\ logLevelOk \in BOOLEAN
    /\ mainPc = "parse"
    /\ i = 1
    /\ dirs = <<>>
    /\ cur = NoCur
    /\ walkErr = FALSE
    /\ file = NoFile
    /\ pos = 0
    /\ res = NewFileLines(<<>>)
    /\ inComment = FALSE
    /\ scanErr = FALSE
    /\ closed = FALSE
    /\ aggPc = "none"
    /\ aggRes = NewFileLines(<<>>)
    /\ total = NewFileLines(<<>>)
    /\ data = <<>>
    /\ table = <<>>
    /\ sent = <<>>
    /\ visited = <<>>
    /\ nClose = 0
    /\ nDone = 0
    /\ logged = <<>>
    /\ lineLog = <<>>
    /\ scans = NoScans

\* the process is alive: neither log.Fatal (os.Exit) nor return from main
Running == mainPc \notin {"fatal", "exit"}

----------------------------------------------------------------------------
(* main *)

\* flag.Parse and the lookup of the log level
ParseFlags ==
    /\ mainPc = "parse"
    /\ mainPc' = IF logLevelOk THEN "spawn" ELSE "fatal"
    /\ UNCHANGED <<files, logLevelOk, i, dirs, cur, walkErr, file, pos, res,
                   inComment, scanErr, closed, aggVars, histVars,
                   scanHist>>

\* make(chan ...) twice and go processResults(results, done)
Spawn ==
    /\ mainPc = "spawn"
    /\ mainPc' = "loop"
    /\ aggPc' = "start"
    /\ UNCHANGED <<files, logLevelOk, i, dirs, cur, walkErr, file, pos, res,
                   inComment, scanErr, closed, aggRes, total, data, table, histVars,
                   scanHist>>

\* the callback is called with (path, info, err)
Call(path, isDir, err) ==
    /\ cur' = [path |-> path, isDir |-> isDir, err |-> err]
    /\ visited' = Append(visited, cur')
    /\ mainPc' = "callback"

\* callback calls the walk of the current root may still make: every root
\* not yet walked is kept one call, the one filepath.Walk makes for the root
VisitsLeft == MaxVisits - Len(visited) - (Len(files) - i)

\* for _, file := range files: filepath.Walk(file, fileProcessor) starts with
\* Lstat(root); a missing root is reported to the callback, a directory is
\* listed and reported with the error of the listing
WalkRoot ==
    /\ mainPc = "loop"
    /\ i <= Len(files)
    /\ \E kind \in {"missing", "file", "dir", "dirUnreadable"} :
         /\ Call(files[i], kind \in {"dir", "dirUnreadable"},
                 kind \in {"missing", "dirUnreadable"})
         /\ dirs' = IF kind = "dir" THEN <<files[i]>> ELSE <<>>
    /\ UNCHANGED <<files, logLevelOk, i, walkErr, file, pos, res, inComment,
                   scanErr, closed, aggVars, sent, nClose, nDone,
                   logged, scanHist>>

\* filepath.Walk goes on to the next entry of the directory being listed
WalkEntry ==
    /\ mainPc = "walk"
    /\ ~walkErr
    /\ dirs # <<>>
    /\ Len(dirs) <= MaxDepth
    /\ VisitsLeft > 0
    /\ \E name \in EntryNames, kind \in {"missing", "file", "dir", "dirUnreadable"} :
         LET path == Join(dirs[Len(dirs)], name) IN
         /\ Call(path, kind \in {"dir", "dirUnreadable"},
                 kind \in {"missing", "dirUnreadable"})
         /\ dirs' = IF kind = "dir" THEN Append(dirs, path) ELSE dirs
    /\ UNCHANGED <<files, logLevelOk, i, walkErr, file, pos, res, inComment,
                   scanErr, closed, aggVars, sent, nClose, nDone,
                   logged, scanHist>>

\* the directory being listed has no more entries
WalkLeaveDir ==
    /\ mainPc = "walk"
    /\ ~walkErr
    /\ dirs # <<>>
    /\ dirs' = SubSeq(dirs, 1, Len(dirs) - 1)
    /\ UNCHANGED <<files, logLevelOk, mainPc, i, cur, walkErr, file, pos, res,
                   inComment, scanErr, closed, aggVars, histVars,
                   scanHist>>

\* filepath.Walk returns what the callback returned; main: if err != nil
\* log.Fatal(err), else the next root
WalkReturn ==
    /\ mainPc = "walk"
    /\ walkErr \/ dirs = <<>>
    /\ IF walkErr
       THEN mainPc' = "fatal" /\ i' = i
       ELSE mainPc' = "loop" /\ i' = i + 1
    /\ dirs' = <<>>
    /\ UNCHANGED <<files, logLevelOk, cur, walkErr, file, pos, res, inComment,
                   scanErr, closed, aggVars, histVars,
                   scanHist>>

\* a call of log.Debug or log.Error made by the callback for cur.path
Log(level) == logged' = Append(logged, [level |-> level, path |-> cur.path])

\* a callback without the test of the suffix
FileProcessorNoFilter ==
    /\ mainPc = "callback"
    /\ IF cur.err
       THEN mainPc' = "walk" /\ walkErr' = FALSE /\ Log("ERROR")
       ELSE mainPc' = "open" /\ walkErr' = walkErr /\ Log("DEBUG")
    /\ UNCHANGED <<files, logLevelOk, i, dirs, cur, file, pos, res, inComment,
                   scanErr, closed, aggVars, sent, visited, nClose, nDone,
                   scanHist>>

\* a callback that hands the error of an entry back to filepath.Walk
FileProcessorReturnsErr ==
    /\ mainPc = "callback"
    /\ IF ~HasSuffix(cur.path, GoSuffix)
       THEN mainPc' = "walk" /\ walkErr' = FALSE /\ Log("DEBUG")
       ELSE IF cur.err
       THEN mainPc' = "walk" /\ walkErr' = TRUE /\ Log("ERROR")
       ELSE mainPc' = "open" /\ walkErr' = walkErr /\ Log("DEBUG")
    /\ UNCHANGED <<files, logLevelOk, i, dirs, cur, file, pos, res, inComment,
                   scanErr, closed, aggVars, sent, visited, nClose, nDone,
                   scanHist>>

\* the callback up to the call of getFileStats
FileProcessor ==
    /\ mainPc = "callback"
    /\ IF ~HasSuffix(cur.path, GoSuffix)
       THEN \* log.Debug("ignoring", path); return nil
            mainPc' = "walk" /\ walkErr' = FALSE /\ Log("DEBUG")
       ELSE IF cur.err
       THEN \* log.Error(err); return nil
            mainPc' = "walk" /\ walkErr' = FALSE /\ Log("ERROR")
       ELSE \* log.Debug("fileProcessor", path); getFileStats(path)
            mainPc' = "open" /\ walkErr' = walkErr /\ Log("DEBUG")
    /\ UNCHANGED <<files, logLevelOk, i, dirs, cur, file, pos, res, inComment,
                   scanErr, closed, aggVars, sent, visited, nClose, nDone,
                   scanHist>>

\* getFileStats: os.Open, res := fileLines{filename}, inComment := false,
\* the scanner, for a file whose lines are one of contents.  A directory
\* opens, and has no lines to read.
OpenWith(contents) ==
    /\ mainPc = "open"
    /\ \E ok \in BOOLEAN :
         IF ~ok
         THEN /\ mainPc' = "fatal"
              /\ UNCHANGED <<file, pos, res, inComment, scanErr, lineLog>>
         ELSE /\ mainPc' = "scan"
              /\ \E lines \in contents :
                   file' = [lines |-> IF cur.isDir THEN <<>> ELSE lines,
                            isDir |-> cur.isDir]
              /\ pos' = 0
              /\ res' = NewFileLines(cur.path)
              /\ inComment' = FALSE
              /\ scanErr' = FALSE
              /\ lineLog' = <<>>
    /\ UNCHANGED <<files, logLevelOk, i, dirs, cur, walkErr, closed, aggVars, histVars,
                   scans>>

\* getFileStats called by the callback
OpenFile == OpenWith(FileContents)

\* for scanner.Scan() { ... }: one call of Scan and, if it returns true, the
\* loop body.  Scan returns
\*   "token"    true, the next line, no error;
\*   "tokenErr" true, with scanner.Err() set (a read failed while data was
\*              still buffered): the body calls log.Fatal;
\*   "stop"     false, with scanner.Err() set (bufio.ErrTooLong, or a read
\*              that failed with nothing buffered, as for a directory);
\*   "eof"      false at the end of the file, no error.
\* After the loop getFileStats returns res without looking at scanner.Err().
ScanLine ==
    /\ mainPc = "scan"
    /\ \E outcome \in
            IF file.isDir THEN {"stop"}
            ELSE IF pos = Len(file.lines) THEN {"eof"}
            ELSE {"token", "tokenErr", "stop"} :
         CASE outcome = "token" ->
                LET step == ScanStep(res, inComment, file.lines[pos + 1]) IN
                /\ res' = step[1]
                /\ inComment' = step[2]
                /\ pos' = pos + 1
                /\ lineLog' = Append(lineLog, [cat |-> Category(res, step[1]),
                                               inC |-> step[2]])
                /\ UNCHANGED <<mainPc, scanErr>>
           [] outcome = "tokenErr" ->
                /\ mainPc' = "fatal"
                /\ scanErr' = TRUE
                /\ UNCHANGED <<res, inComment, pos, lineLog>>
           [] outcome = "stop" ->
                /\ mainPc' = "send"
                /\ scanErr' = TRUE
                /\ UNCHANGED <<res, inComment, pos, lineLog>>
           [] outcome = "eof" ->
                /\ mainPc' = "send"
                /\ UNCHANGED <<res, inComment, pos, scanErr, lineLog>>
    /\ UNCHANGED <<files, logLevelOk, i, dirs, cur, walkErr, file, closed,
                   aggVars, histVars, scans>>

\* close(results) placed inside the loop over the roots
CloseResultsInLoop ==
    /\ mainPc = "loop"
    /\ closed' = TRUE
    /\ nClose' = nClose + 1
    /\ mainPc' = IF i > Len(files) THEN "wait" ELSE "loop"
    /\ UNCHANGED <<files, logLevelOk, i, dirs, cur, walkErr, file, pos, res,
                   inComment, scanErr, aggVars, sent, visited, nDone,
                   logged, scanHist>>

\* main without close(results)
CloseResultsForgotten ==
    /\ mainPc = "loop"
    /\ i > Len(files)
    /\ mainPc' = "wait"
    /\ UNCHANGED <<files, logLevelOk, i, dirs, cur, walkErr, file, pos, res,
                   inComment, scanErr, closed, aggVars, histVars,
                   scanHist>>

\* close(results)
CloseResults ==
    /\ mainPc = "loop"
    /\ i > Len(files)
    /\ closed' = TRUE
    /\ nClose' = nClose + 1
    /\ mainPc' = "wait"
    /\ UNCHANGED <<files, logLevelOk, i, dirs, cur, walkErr, file, pos, res,
                   inComment, scanErr, aggVars, sent, visited, nDone,
                   logged, scanHist>>

----------------------------------------------------------------------------
(* processResults *)

\* total := fileLines{filename: "TOTAL"}; var data [][]string
AggStart ==
    /\ Running
    /\ aggPc = "start"
    /\ total' = NewFileLines(TotalName)
    /\ data' = <<>>
    /\ aggPc' = "recv"
    /\ UNCHANGED <<files, logLevelOk, mainVars, closed, aggRes, table, histVars,
                   scanHist>>

\* a send that does not wait for the receiver, as on a buffered channel: the
\* record is taken when the aggregator is next at its receive
SendNoWait ==
    /\ mainPc = "send"
    /\ ~closed
    /\ sent' = Append(sent, [rec |-> res, nlines |-> Len(file.lines),
                             read |-> pos, err |-> scanErr, isDir |-> file.isDir,
                             root |-> i])
    /\ IF aggPc = "recv"
       THEN aggRes' = res /\ aggPc' = "body"
       ELSE UNCHANGED <<aggRes, aggPc>>
    /\ mainPc' = "walk"
    /\ walkErr' = FALSE
    /\ UNCHANGED <<files, logLevelOk, i, dirs, cur, file, pos, res, inComment,
                   scanErr, closed, total, data, table, visited, nClose, nDone,
                   logged, scanHist>>

\* out <- getFileStats(path) meets res := range results: the channel is
\* unbuffered, so the send and the receive are one step; the callback then
\* returns nil
SendRecv ==
    /\ mainPc = "send"
    /\ aggPc = "recv"
    /\ ~closed
    /\ aggRes' = res
    /\ aggPc' = "body"
    /\ sent' = Append(sent, [rec |-> res, nlines |-> Len(file.lines),
                             read |-> pos, err |-> scanErr, isDir |-> file.isDir,
                             root |-> i])
    /\ mainPc' = "walk"
    /\ walkErr' = FALSE
    /\ UNCHANGED <<files, logLevelOk, i, dirs, cur, file, pos, res, inComment,
                   scanErr, closed, total, data, table, visited, nClose, nDone,
                   logged, scanHist>>

\* a loop body that puts the new row first
AggBodyPrepend ==
    /\ Running
    /\ aggPc = "body"
    /\ total' = join(total, aggRes)
    /\ data' = <<Row(aggRes)>> \o data
    /\ aggPc' = "recv"
    /\ UNCHANGED <<files, logLevelOk, mainVars, closed, aggRes, table, histVars,
                   scanHist>>

\* a loop body that keeps one row per filename
AggBodyDedup ==
    /\ Running
    /\ aggPc = "body"
    /\ IF \E k \in 1..Len(data) : data[k][1] = aggRes.filename
       THEN UNCHANGED <<total, data>>
       ELSE /\ total' = join(total, aggRes)
            /\ data' = Append(data, Row(aggRes))
    /\ aggPc' = "recv"
    /\ UNCHANGED <<files, logLevelOk, mainVars, closed, aggRes, table, histVars,
                   scanHist>>

\* the body of the receive loop: total.join(res); data = append(data, row)
AggBody ==
    /\ Running
    /\ aggPc = "body"
    /\ total' = join(total, aggRes)
    /\ data' = Append(data, Row(aggRes))
    /\ aggPc' = "recv"
    /\ UNCHANGED <<files, logLevelOk, mainVars, closed, aggRes, table, histVars,
                   scanHist>>

\* a receive loop that may end while the channel is still open
AggLeaveLoopEarly ==
    /\ Running
    /\ aggPc = "recv"
    /\ aggPc' = "render"
    /\ UNCHANGED <<files, logLevelOk, mainVars, closed, aggRes, total, data,
                   table, histVars,
                   scanHist>>

\* range results ends: the channel is closed (and, being unbuffered, empty)
AggLeaveLoop ==
    /\ Running
    /\ aggPc = "recv"
    /\ closed
    /\ aggPc' = "render"
    /\ UNCHANGED <<files, logLevelOk, mainVars, closed, aggRes, total, data,
                   table, histVars,
                   scanHist>>

\* done <- true placed before the table is rendered
AggRenderSkipped ==
    /\ Running
    /\ aggPc = "render"
    /\ aggPc' = "senddone"
    /\ UNCHANGED <<files, logLevelOk, mainVars, closed, aggRes, total, data,
                   table, histVars,
                   scanHist>>

\* the table: header, footer from total, rows from data, Render
AggRender ==
    /\ Running
    /\ aggPc = "render"
    /\ table' = Append(table, [rows |-> data, footer |-> Row(total)])
    /\ aggPc' = "senddone"
    /\ UNCHANGED <<files, logLevelOk, mainVars, closed, aggRes, total, data, histVars,
                   scanHist>>

\* done <- true meets <-done in main, which then returns
DoneRecv ==
    /\ mainPc = "wait"
    /\ aggPc = "senddone"
    /\ nDone' = nDone + 1
    /\ aggPc' = "end"
    /\ mainPc' = "exit"
    /\ UNCHANGED <<files, logLevelOk, i, dirs, cur, walkErr, file, pos, res,
                   inComment, scanErr, closed, aggRes, total, data, table,
                   sent, visited, nClose,
                   logged, scanHist>>

----------------------------------------------------------------------------
MainStep ==
    \/ ParseFlags
    \/ Spawn
    \/ WalkRoot
    \/ WalkEntry
    \/ WalkLeaveDir
    \/ WalkReturn
    \/ FileProcessor
    \/ OpenFile
    \/ ScanLine
    \/ CloseResults

AggStep ==
    \/ AggStart
    \/ AggBody
    \/ AggLeaveLoop
    \/ AggRender

Next ==
    \/ ParseFlags
    \/ Spawn
    \/ WalkRoot
    \/ WalkEntry
    \/ WalkLeaveDir
    \/ WalkReturn
    \/ FileProcessor
    \/ OpenFile
    \/ ScanLine
    \/ CloseResults
    \/ AggStart
    \/ SendRecv
    \/ AggBody
    \/ AggLeaveLoop
    \/ AggRender
    \/ DoneRecv

Spec == Init /\ [][Next]_vars

\* the Go scheduler runs every goroutine that can run
FairSpec == Spec /\ WF_vars(MainStep) /\ WF_vars(AggStep) /\ WF_vars(SendRecv) /\ WF_vars(DoneRecv)

----------------------------------------------------------------------------
(* getFileStats alone: one file after another is scanned by the same task *)

ScanInit ==
    /\ files = <<ScanPath>>
    /\ logLevelOk = TRUE
    /\ mainPc = "open"
    /\ i = 1
    /\ dirs = <<>>
    /\ cur = [path |-> ScanPath, isDir |-> FALSE, err |-> FALSE]
    /\ walkErr = FALSE
    /\ file = NoFile
    /\ pos = 0
    /\ res = NewFileLines(<<>>)
    /\ inComment = FALSE
    /\ scanErr = FALSE
    /\ closed = FALSE
    /\ aggPc = "none"
    /\ aggRes = NewFileLines(<<>>)
    /\ total = NewFileLines(<<>>)
    /\ data = <<>>
    /\ table = <<>>
    /\ sent = <<>>
    /\ visited = <<>>
    /\ nClose = 0
    /\ nDone = 0
    /\ logged = <<>>
    /\ lineLog = <<>>
    /\ scans = NoScans

\* getFileStats for a file made of the classifier's lines
ScanOpenFile == OpenWith(ScanContents)

\* return res.  The scans of the file scans.of are kept: what the scanner
\* delivered, the record and the line log; dirty tells whether the scan that
\* returned last ended inside a block comment, again whether scans.of has
\* been scanned once more after such a scan.  When no file is followed the
\* task ends with the first return
ScanReturn ==
    /\ mainPc = "send"
    /\ mainPc' = IF scans.on THEN "open" ELSE "returned"
    /\ scans' =
          IF ~scans.on THEN scans
          ELSE IF file.lines = scans.of
          THEN [scans EXCEPT
                  !.results = @ \cup {[read |-> pos, err |-> scanErr,
                                       rec |-> res, log |-> lineLog]},
                  !.again = @ \/ (scans.dirty /\ scans.results # {}),
                  !.dirty = inComment]
          ELSE [scans EXCEPT !.dirty = inComment]
    /\ UNCHANGED <<files, logLevelOk, i, dirs, cur, walkErr, file, pos, res,
                   inComment, scanErr, closed, aggVars, histVars, lineLog>>

ScanNext ==
    \/ ScanOpenFile
    \/ ScanLine
    \/ ScanReturn

ScanSpec == ScanInit /\ [][ScanNext]_vars

\* the same, for the files of the walk, one of which is followed
RescanInit ==
    /\ files = <<ScanPath>>
    /\ logLevelOk = TRUE
    /\ mainPc = "open"
    /\ i = 1
    /\ dirs = <<>>
    /\ cur = [path |-> ScanPath, isDir |-> FALSE, err |-> FALSE]
    /\ walkErr = FALSE
    /\ file = NoFile
    /\ pos = 0
    /\ res = NewFileLines(<<>>)
    /\ inComment = FALSE
    /\ scanErr = FALSE
    /\ closed = FALSE
    /\ aggPc = "none"
    /\ aggRes = NewFileLines(<<>>)
    /\ total = NewFileLines(<<>>)
    /\ data = <<>>
    /\ table = <<>>
    /\ sent = <<>>
    /\ visited = <<>>
    /\ nClose = 0
    /\ nDone = 0
    /\ logged = <<>>
    /\ lineLog = <<>>
    /\ \E lines \in FileContents : scans = [NoScans EXCEPT !.on = TRUE, !.of = lines]

RescanNext ==
    \/ OpenFile
    \/ ScanLine
    \/ ScanReturn

RescanSpec == RescanInit /\ [][RescanNext]_vars

----------------------------------------------------------------------------
(* Reading the histories and the printed table *)

DigitValue(c) == CHOOSE d \in 0..9 : Digits[d + 1] = c

RECURSIVE AtoiNat(_)
AtoiNat(s) ==
    IF Len(s) = 1 THEN DigitValue(s[1])
    ELSE 10 * AtoiNat(SubSeq(s, 1, Len(s) - 1)) + DigitValue(s[Len(s)])

Atoi(s) == IF Head(s) = "-" THEN 0 - AtoiNat(Tail(s)) ELSE AtoiNat(s)

\* the record a formatted row stands for
ParseRow(row) ==
    [filename |-> row[1], whitespaceLines |-> Atoi(row[2]),
     commentLines |-> Atoi(row[3]), codeLines |-> Atoi(row[4])]

RECURSIVE SumRecs(_)
SumRecs(s) ==
    IF s = <<>> THEN [codeLines |-> 0, commentLines |-> 0, whitespaceLines |-> 0]
    ELSE LET rest == SumRecs(Tail(s)) IN
         [codeLines       |-> Head(s).rec.codeLines + rest.codeLines,
          commentLines    |-> Head(s).rec.commentLines + rest.commentLines,
          whitespaceLines |-> Head(s).rec.whitespaceLines + rest.whitespaceLines]

Counts(r) == r.codeLines + r.commentLines + r.whitespaceLines

SentRecs == [k \in 1..Len(sent) |-> sent[k].rec]
RowRecs  == [k \in 1..Len(data) |-> ParseRow(data[k])]

\* the aggregator has left its receive loop
LoopLeft == aggPc \in {"render", "senddone", "end"}

\* a callback call made for a root itself, not for an entry below it
IsRootVisit(v) == \A k \in 1..Len(v.path) : v.path[k] # "/"

\* the calls for which the callback scans: suffix .go and no error
Eligible == SelectSeq(visited, LAMBDA v : HasSuffix(v.path, GoSuffix) /\ ~v.err)
EligiblePaths == [k \in 1..Len(Eligible) |-> Eligible[k].path]
SentPaths == [k \in 1..Len(sent) |-> sent[k].rec.filename]

IsPrefix(s, t) == Len(s) <= Len(t) /\ s = SubSeq(t, 1, Len(s))

----------------------------------------------------------------------------
(* Claims *)

\* C1: when the aggregator leaves its receive loop, each counter of total is
\* the sum of that counter over all the records sent on results.
C1_TotalIsSumOfSent ==
    LoopLeft =>
        /\ total.codeLines = SumRecs(sent).codeLines
        /\ total.commentLines = SumRecs(sent).commentLines
        /\ total.whitespaceLines = SumRecs(sent).whitespaceLines

C1_Witness ==
    /\ LoopLeft
    /\ Len(sent) = 2
    /\ sent[1].rec.codeLines = 2
    /\ sent[2].rec.commentLines = 1
    /\ sent[2].rec.whitespaceLines = 1
    /\ total.codeLines = 2

\* C2: the rows are always a prefix of the records sent, in send order, and
\* are all of them once the aggregator has left its loop: nothing is dropped,
\* duplicated, merged or reordered, and a path given twice has two rows.
C2_RowsAreTheSentRecords ==
    /\ IsPrefix(RowRecs, SentRecs)
    /\ Len(sent) - Len(data) <= 1
    /\ LoopLeft => RowRecs = SentRecs
    /\ \A t \in 1..Len(table) : table[t].rows = data

C2_Witness ==
    /\ aggPc = "end"
    /\ Len(files) = 2
    /\ files[1] = files[2]
    /\ Len(data) = 2
    /\ data[1][1] = files[1]
    /\ data[2][1] = files[1]
    /\ sent[1].rec.codeLines = 1
    /\ total.codeLines = 2

\* C3: done is passed at most once, and only when results is closed, every
\* record sent is in data and total, and the table is rendered; main gets
\* past its wait only by that one value.
C3_DoneOnceAfterReport ==
    /\ nDone <= 1
    /\ (nDone = 1 \/ aggPc = "senddone") =>
          /\ closed
          /\ RowRecs = SentRecs
          /\ Counts(total) = Counts(SumRecs(sent))
          /\ Len(table) = 1
          /\ table[1].rows = data
          /\ table[1].footer = Row(total)
    /\ mainPc = "exit" <=> nDone = 1

C3_Witness ==
    /\ nDone = 1
    /\ mainPc = "exit"
    /\ Len(sent) = 2
    /\ Len(table[1].rows) = 2

\* C4: results is closed at most once, by main at its close statement, after
\* the walk of every root has returned, and nothing is sent after the close.
C4_ClosedOnceAfterAllWalks ==
    /\ [](/\ nClose <= 1
          /\ closed <=> nClose = 1
          /\ closed => i > Len(files) /\ dirs = <<>> /\ mainPc \in {"wait", "exit"}
          /\ mainPc \in {"callback", "open", "scan", "send", "walk"} => ~closed)
    /\ [][closed' # closed =>
            /\ ~closed
            /\ mainPc = "loop" /\ mainPc' = "wait"
            /\ i > Len(files)
            /\ aggPc' = aggPc]_vars
    /\ [][closed => sent' = sent]_vars

C4_Witness ==
    /\ closed
    /\ nClose = 1
    /\ Len(files) = 2
    /\ Len(sent) = 2

\* C5: under fair scheduling a run ends, by log.Fatal or by main's return;
\* every send is received; a run that returns has closed the channel and got
\* done from the aggregator, which has finished; with no root the table is
\* empty with an all-zero total.
C5_Terminates ==
    /\ <>(mainPc \in {"exit", "fatal"})
    /\ (mainPc = "send") ~> (mainPc = "walk" /\ aggPc = "body")
    /\ (mainPc = "wait") ~> (mainPc = "exit")
    /\ (mainPc = "loop") ~> (closed \/ mainPc = "fatal")
    /\ [](mainPc = "exit" => closed /\ aggPc = "end" /\ nDone = 1)
    /\ [](mainPc = "exit" /\ files = <<>> =>
            table = << [rows |-> <<>>, footer |-> <<TotalName, <<"0">>, <<"0">>, <<"0">>>>] >>)

C5_Witness ==
    /\ mainPc = "exit"
    /\ files = <<>>
    /\ Len(table) = 1
    /\ table[1].rows = <<>>

\* a root that does not exist has been reported to the callback
MissingRootSeen ==
    \E k \in 1..Len(visited) :
        /\ IsRootVisit(visited[k])
        /\ visited[k].err
        /\ ~visited[k].isDir
        /\ (k < Len(visited) \/ mainPc # "callback")

\* C6: once a root that does not exist has been met the run aborts: no
\* later root is walked, results is not closed and no table is printed.
C6_MissingRootIsFatal ==
    MissingRootSeen =>
        /\ mainPc \in {"walk", "fatal"}
        /\ ~closed
        /\ table = <<>>
        /\ \A k \in 1..Len(visited) :
              IsRootVisit(visited[k]) /\ visited[k].err /\ ~visited[k].isDir =>
                  \A j \in (k + 1)..Len(visited) : ~IsRootVisit(visited[j])

\* C7: no record is sent for a file whose scan stopped on a read error
\* before its last line: the record sent covers every line of the file.
C7_NoPartialRecord ==
    /\ \A k \in 1..Len(sent) : ~(sent[k].err /\ sent[k].read < sent[k].nlines)
    /\ mainPc = "send" => ~(scanErr /\ pos < Len(file.lines))

\* C8: at most one table is printed; none if the run ends by log.Fatal, even
\* when records have already been received; exactly one if main returns, with
\* a row, in order, for every path the callback scanned.
C8_OneReportUnlessFatal ==
    /\ Len(table) <= 1
    /\ mainPc = "fatal" => table = <<>>
    /\ ~logLevelOk => table = <<>> /\ sent = <<>>
    /\ mainPc = "exit" =>
          /\ Len(table) = 1
          /\ [k \in 1..Len(table[1].rows) |-> table[1].rows[k][1]] = EligiblePaths
          /\ [k \in 1..Len(table[1].rows) |-> ParseRow(table[1].rows[k])] = SentRecs
          /\ table[1].footer[1] = TotalName
          /\ Counts(ParseRow(table[1].footer)) = Counts(SumRecs(sent))

C8_Witness ==
    /\ mainPc = "fatal"
    /\ logLevelOk
    /\ Len(data) = 1
    /\ Len(sent) = 1
    /\ sent[1].rec.codeLines = 1
    /\ table = <<>>

\* C9: the counters of the record sent for a file add up to the number of
\* lines of the file, and during the scan to the number of lines read so far.
C9_CountersAddUpToLines ==
    /\ \A k \in 1..Len(sent) : Counts(sent[k].rec) = sent[k].nlines
    /\ mainPc \in {"scan", "send"} => Counts(res) = pos

\* C10: an entry the walk reports with an error gets no record and ends
\* nothing: the callback returns nil for it, the records sent are those of
\* the entries scanned, the run is fatal only inside a scan, and a run that
\* returns has walked every root and printed a row for every entry scanned.
C10_EntryErrorsAreSkipped ==
    /\ ~walkErr
    /\ IsPrefix(SentPaths, EligiblePaths)
    /\ Len(EligiblePaths) - Len(SentPaths) <= 1
    /\ mainPc \in {"callback", "open", "scan", "send"} => cur = visited[Len(visited)]
    /\ mainPc \in {"open", "scan", "send"} => ~cur.err /\ HasSuffix(cur.path, GoSuffix)
    /\ mainPc = "fatal" /\ logLevelOk => ~cur.err /\ HasSuffix(cur.path, GoSuffix)
    /\ mainPc = "exit" =>
          /\ i > Len(files)
          /\ Len(table) = 1
          /\ [k \in 1..Len(table[1].rows) |-> table[1].rows[k][1]] = EligiblePaths

C10_Witness ==
    /\ mainPc = "exit"
    /\ Len(visited) = 3
    /\ visited[1].isDir /\ ~visited[1].err
    /\ visited[2].isDir /\ visited[2].err /\ ~IsRootVisit(visited[2])
    /\ ~visited[3].isDir /\ ~visited[3].err /\ ~IsRootVisit(visited[3])
    /\ HasSuffix(visited[2].path, GoSuffix)
    /\ Len(table[1].rows) = 1
    /\ table[1].rows[1][1] = visited[3].path
    /\ Atoi(table[1].rows[1][4]) = 1

----------------------------------------------------------------------------
(* Reading the line log of the current scan *)

Trimmed(k)     == TrimSpace(file.lines[k])
IsBlank(k)     == Trimmed(k) = <<>>
StartsLine(k)  == HasPrefix(Trimmed(k), LineComment)
StartsBlock(k) == HasPrefix(Trimmed(k), BlockOpen)
EndsBlock(k)   == HasSuffix(Trimmed(k), BlockClose)

\* inComment when line k is classified
InBlockBefore(k) == IF k = 1 THEN FALSE ELSE lineLog[k - 1].inC

\* the line log of the reference order of tests, from no block comment open
RECURSIVE RefLog(_, _, _)
RefLog(lines, r, inC) ==
    IF lines = <<>> THEN <<>>
    ELSE LET step == RefStep(r, inC, Head(lines)) IN
         << [cat |-> Category(r, step[1]), inC |-> step[2]] >>
             \o RefLog(Tail(lines), step[1], step[2])

\* the lines after p that close the block comment opened at p: not blank,
\* starting with neither marker, ending with the close marker
Closers(p) ==
    { q \in (p + 1)..pos :
        ~IsBlank(q) /\ ~StartsLine(q) /\ ~StartsBlock(q) /\ EndsBlock(q) }

FirstCloser(p) ==
    IF Closers(p) = {} THEN pos + 1
    ELSE CHOOSE q \in Closers(p) : \A q2 \in Closers(p) : q <= q2

\* the records the aggregator has taken from the channel
Received == Len(data) + (IF aggPc = "body" THEN 1 ELSE 0)

----------------------------------------------------------------------------
(* Claims, continued *)

\* C11: a record is sent only for a path that ends with ".go"; a visit of
\* any other path scans nothing, sends nothing, is not fatal and is not
\* logged as an error, with or without an error from the walk.
C11_OnlyGoPathsAreScanned ==
    /\ \A k \in 1..Len(sent) : HasSuffix(sent[k].rec.filename, GoSuffix)
    /\ \A k \in 1..Len(data) : HasSuffix(data[k][1], GoSuffix)
    /\ \A k \in 1..Len(logged) :
          ~HasSuffix(logged[k].path, GoSuffix) => logged[k].level = "DEBUG"
    /\ mainPc \in {"open", "scan", "send"} => HasSuffix(cur.path, GoSuffix)
    /\ mainPc = "fatal" /\ logLevelOk => HasSuffix(cur.path, GoSuffix)
    /\ Len(sent) <= Cardinality({k \in 1..Len(visited) : HasSuffix(visited[k].path, GoSuffix)})
    /\ ~walkErr

C11_Witness ==
    /\ mainPc = "exit"
    /\ Len(visited) = 3
    /\ ~HasSuffix(visited[1].path, GoSuffix) /\ visited[1].isDir /\ ~visited[1].err
    /\ HasSuffix(visited[2].path, GoSuffix) /\ ~visited[2].isDir /\ ~visited[2].err
    /\ ~HasSuffix(visited[3].path, GoSuffix) /\ visited[3].err
    /\ Len(logged) = 3
    /\ Len(table[1].rows) = 1
    /\ table[1].rows[1][1] = visited[2].path

\* C12: only regular files are scanned and sent: no record is sent for a
\* directory, and no directory is opened by getFileStats.
C12_OnlyRegularFilesAreScanned ==
    /\ \A k \in 1..Len(sent) : ~sent[k].isDir
    /\ mainPc \in {"scan", "send"} => ~file.isDir

\* C13: a line that starts with the open marker and ends with the close
\* marker is counted as Comment and leaves no block comment open, whatever
\* the state before it.
C13_ClosedBlockLineLeavesNoBlock ==
    \A k \in 1..pos :
        StartsBlock(k) /\ EndsBlock(k) =>
            lineLog[k].cat = "Comment" /\ ~lineLog[k].inC

\* C14: with no block comment open, a line that starts with the open marker
\* and does not end with the close marker opens a block: it and the lines
\* after it that are not blank and start with neither marker are Comment up
\* to the first of them that ends with the close marker, after which the
\* block is closed and a line that is not blank and starts with neither
\* marker is Code.
C14_MultiLineBlock ==
    \A p \in 1..pos :
        (~InBlockBefore(p) /\ StartsBlock(p) /\ ~EndsBlock(p)) =>
            LET q == FirstCloser(p) IN
            /\ lineLog[p].cat = "Comment"
            /\ \A k \in p..pos :
                  k <= q /\ ~IsBlank(k) /\ ~StartsLine(k) /\ ~StartsBlock(k) =>
                      lineLog[k].cat = "Comment"
            /\ \A k \in p..pos : k < q => lineLog[k].inC
            /\ q <= pos => ~lineLog[q].inC
            /\ (q + 1 <= pos /\ ~IsBlank(q + 1) /\ ~StartsLine(q + 1) /\ ~StartsBlock(q + 1)) =>
                  lineLog[q + 1].cat = "Code"

C14_Witness ==
    /\ mainPc = "returned"
    /\ file.lines = << BlockOpen, BlockClose, <<"x">> >>
    /\ res.commentLines = 2
    /\ res.codeLines = 1

\* C15: a line that starts with the line-comment marker is Comment and
\* leaves inComment as it was, whatever else the line holds.
C15_LineCommentKeepsState ==
    \A k \in 1..pos :
        StartsLine(k) =>
            /\ lineLog[k].cat = "Comment"
            /\ lineLog[k].inC = InBlockBefore(k)

C15_Witness ==
    /\ pos = 3
    /\ file.lines = << BlockOpen, LineComment \o BlockClose, <<"x">> >>
    /\ lineLog[2].inC
    /\ lineLog[3].cat = "Comment"

\* C16: a line that is empty after trimming is Blank, also inside a block
\* comment, and leaves inComment as it was; a file of such lines only has
\* no comment line and no code line.
C16_BlankLines ==
    /\ \A k \in 1..pos :
          IsBlank(k) => lineLog[k].cat = "Blank" /\ lineLog[k].inC = InBlockBefore(k)
    /\ (\A k \in 1..pos : IsBlank(k)) =>
          res.commentLines = 0 /\ res.codeLines = 0 /\ res.whitespaceLines = pos

C16_Witness ==
    /\ pos = 3
    /\ file.lines = << BlockOpen, <<" ">>, <<"x">> >>
    /\ lineLog[2].cat = "Blank"
    /\ lineLog[2].inC
    /\ lineLog[3].cat = "Comment"

\* C17: the categories and the values of inComment that getFileStats
\* computes are those of the reference order of tests.
C17_SameAsReferenceOrder ==
    mainPc \in {"scan", "send", "returned"} =>
        lineLog = RefLog(SubSeq(file.lines, 1, pos), NewFileLines(cur.path), FALSE)

\* C18: the roots are walked one after the other and a record is received
\* when it is sent: the records of a root are all received before the next
\* root is walked, and the rows are in the order in which the files are met.
C18_RowsInDiscoveryOrder ==
    /\ \A j, k \in 1..Len(sent) : j < k => sent[j].root <= sent[k].root
    /\ \A k \in 1..Len(sent) :
          /\ sent[k].root <= i
          /\ HasPrefix(sent[k].rec.filename, files[sent[k].root])
          /\ mainPc = "loop" => sent[k].root < i
    /\ mainPc = "loop" => Len(sent) = Len(Eligible)
    /\ IsPrefix(SentPaths, EligiblePaths)
    /\ IsPrefix([k \in 1..Len(data) |-> data[k][1]], EligiblePaths)
    /\ \A t \in 1..Len(table) :
          [k \in 1..Len(table[t].rows) |-> table[t].rows[k][1]] = EligiblePaths

C18_Witness ==
    /\ mainPc = "exit"
    /\ Len(files) = 2
    /\ files[1] # files[2]
    /\ Len(sent) = 2
    /\ sent[1].root = 1
    /\ sent[2].root = 2
    /\ table[1].rows[1][1] = Join(files[1], files[2])
    /\ table[1].rows[2][1] = files[2]

\* every scan starts with no block comment open, and two scans of the file
\* in which the scanner stopped at the same line give the same record and
\* the same line log
ScanStateIsPrivate ==
    /\ \A r1, r2 \in scans.results : r1.read = r2.read => r1 = r2
    /\ mainPc = "scan" /\ pos = 0 => ~inComment

\* C19: two scans of the same file give the same record, whatever is
\* scanned in between, also a file that ended inside a block comment.
C19_RescanGivesSameRecord ==
    \A r1, r2 \in scans.results : r1.rec = r2.rec

\* C20: no record is in flight: the records sent are the records the
\* aggregator has taken, at most one of them not yet in data and total, and
\* the scan of a file starts only when the records of the files before it
\* have been taken; this holds when log.Fatal ends the run, too.
C20_NothingInFlight ==
    /\ Len(sent) = Received
    /\ Len(sent) - Len(data) \in {0, 1}
    /\ Counts(total) = Counts(SumRecs(SubSeq(sent, 1, Len(data))))
    /\ mainPc \in {"open", "scan", "send"} => Len(sent) = Len(Eligible) - 1
    /\ mainPc \in {"loop", "walk", "wait", "exit"} => Len(sent) = Len(Eligible)

C20_Witness ==
    /\ mainPc = "fatal"
    /\ Len(sent) = 1
    /\ aggPc = "body"
    /\ Len(data) = 0
    /\ Len(visited) = 2

====
